---- MODULE Spec2Model ----
(***************************************************************************)
(* A model of the typing game of src/src/game.rs: the per-word state       *)
(* machine (Word::update), the frame loop with edge detection and the      *)
(* reset cooldown (Game::update) and the layout built by Game::new.        *)
(* Spec is the game under any held keys and frame deltas; SpecWord is one  *)
(* word under any sequence of Word::update calls; SpecWordGame is a Game   *)
(* of one word of any text; SpecLayout is Game::new at full scale;         *)
(* SpecMenu is one Menu of src/src/menu.rs under key events; SpecManager   *)
(* is the GameManager: the game mode, the two menus and the Game.          *)
(*                                                                         *)
(* Characters are one-character strings ("a", "0"), key codes are the      *)
(* names of the KeyCode variants ("A", "Key0").  Time is counted in ticks  *)
(* of 1/TicksPerSecond second.  Positions are integer pairs, relative to   *)
(* the place the word was spawned at.                                      *)
(***************************************************************************)
EXTENDS Integers, Sequences, FiniteSets, TLC

VARIABLES
    words,          \* Game.words: the collection of Word records
    reset_typed,    \* Game.reset_typed: the reset cooldown
    keys_pressed,   \* Game.keys_pressed: the held keys of the previous frame
    new_keypress,   \* the local new_keypress of the last update (or the key_pressed of the last Word::update)
    result,         \* what the last update returned: "Ok" or "Err"
    since_typed,    \* Game updates completed since the last Active -> Typed transition (SinceCap: that many or more, or none yet)
    calls,          \* Word::update calls made on a stand-alone word (SpecWord)
    game_state,     \* GameManager.game_state: "Active", "MainMenu" or "Paused"
    main_menu,      \* GameManager.main_menu: a MainMenu (its Menu and show_resume)
    pause_menu,     \* GameManager.pause_menu: a Menu
    frames,         \* Game updates the GameManager has made on its current Game
    resumed,        \* whether the last event of the GameManager went back from a menu to the Game there was
    menu,           \* a stand-alone Menu (SpecMenu)
    menu_run,       \* the run of equal selection moves the stand-alone Menu is in
    timer_delta,    \* timer::delta of the last frame of a one-word Game (SpecWordGame), in ticks
    rendered        \* the Text the last Word::draw of a stand-alone word built, << >> after an update

game_vars == <<words, reset_typed, keys_pressed, new_keypress, result, since_typed>>

manager_vars == <<game_state, main_menu, pause_menu, frames, resumed>>

menu_vars == <<menu, menu_run>>

vars == <<words, reset_typed, keys_pressed, new_keypress, result, since_typed, calls,
          game_state, main_menu, pause_menu, frames, resumed, menu, menu_run, timer_delta,
          rendered>>

---------------------------------------------------------------------------
(* Bounds of the model *)

MaxWordLen == 2         \* longest word text
NumVocab == 1           \* vocabulary words built by Game::new (171 in the source)
TicksPerSecond == 2     \* resolution of the clock
MaxCoord == 2           \* updates stop once a word is further than this from its spawn point
SinceCap == 2           \* since_typed stops counting here
MaxCalls == 4           \* Word::update calls on a stand-alone word
MaxItems == 3           \* most items of a stand-alone menu
MaxFrames == 2          \* Game updates the GameManager makes on one Game
ShuffleWindow == 5      \* entries of the word list the shuffle may rearrange

---------------------------------------------------------------------------
(* Values *)

None == "None"

WordState == {"Active", "Typed", "Dead"}

\* the characters of the words Game::new builds in the model, all mapped
Alphabet == {"a", "b"}
\* the characters a stand-alone word may hold: "-" has no key code
AnyAlphabet == Alphabet \cup {"-"}

RECURSIVE TextsOfLen(_, _)
TextsOfLen(chars, n) ==
    IF n = 0 THEN {<< >>}
    ELSE {Append(t, c) : t \in TextsOfLen(chars, n - 1), c \in chars}

Texts(chars) == UNION {TextsOfLen(chars, n) : n \in 1..MaxWordLen}

ch_to_keycode(ch) ==
    CASE ch = "0" -> "Key0" [] ch = "1" -> "Key1" [] ch = "2" -> "Key2"
      [] ch = "3" -> "Key3" [] ch = "4" -> "Key4" [] ch = "5" -> "Key5"
      [] ch = "6" -> "Key6" [] ch = "7" -> "Key7" [] ch = "8" -> "Key8"
      [] ch = "9" -> "Key9"
      [] ch = "a" -> "A" [] ch = "b" -> "B" [] ch = "c" -> "C" [] ch = "d" -> "D"
      [] ch = "e" -> "E" [] ch = "f" -> "F" [] ch = "g" -> "G" [] ch = "h" -> "H"
      [] ch = "i" -> "I" [] ch = "j" -> "J" [] ch = "k" -> "K" [] ch = "l" -> "L"
      [] ch = "m" -> "M" [] ch = "n" -> "N" [] ch = "o" -> "O" [] ch = "p" -> "P"
      [] ch = "q" -> "Q" [] ch = "r" -> "R" [] ch = "s" -> "S" [] ch = "t" -> "T"
      [] ch = "u" -> "U" [] ch = "v" -> "V" [] ch = "w" -> "W" [] ch = "x" -> "X"
      [] ch = "y" -> "Y" [] ch = "z" -> "Z"
      [] OTHER -> None

\* the keys the host may report as held: the keys of the model's characters
Keys == {ch_to_keycode(c) : c \in Alphabet}

\* the texts of the ring labels: stand-ins for "0" and "15"
LabelTexts == { <<"a">>, <<"a", "b">> }

\* the velocities Game::new may give a vocabulary word
Velocities == {<<1, 1>>}
ZeroVelocity == <<0, 0>>
Origin == <<0, 0>>

---------------------------------------------------------------------------
(* The death animation: a clock over the keyframes' total duration *)

animation_duration == 1

\* AnimationSequence::duration(): the offset of the last keyframe
duration == animation_duration * TicksPerSecond

\* AnimationSequence::new() with the four keyframes inserted: the clock at 0
new_death_animation == 0

\* the frame deltas the host may report, in ticks: advance_by stops the clock
\* at the duration, so one delta beyond the duration stands for all of them
Deltas == 0..(duration + 1)

\* AnimationSequence::finished()
finished(death_animation) == death_animation = duration

\* a faulty variant: the clock of the death animation does not move
advance_by_frozen(death_animation, delta) == death_animation

\* AnimationSequence::advance_by(): the clock stops at the duration
advance_by(death_animation, delta) ==
    IF death_animation + delta > duration THEN duration ELSE death_animation + delta

---------------------------------------------------------------------------
(* Word *)

Word_new(word, position, velocity) ==
    [ word |-> word,
      num_typed |-> 0,
      position |-> position,
      velocity |-> velocity,
      color |-> "Fg",
      state |-> "Active",
      death_animation |-> new_death_animation ]

\* a faulty variant: a Typed word dies whatever its animation clock shows
DeathStepEager(w) ==
    IF w.state = "Typed" THEN [w EXCEPT !.state = "Dead"] ELSE w

\* if self.state == Typed && self.death_animation.finished() { self.state = Dead }
DeathStep(w) ==
    IF w.state = "Typed" /\ finished(w.death_animation)
    THEN [w EXCEPT !.state = "Dead"]
    ELSE w

\* a faulty variant: the clock of a Typed word is advanced twice
AdvanceStepTwice(w, delta) ==
    IF w.state = "Typed"
    THEN [w EXCEPT !.death_animation = advance_by(advance_by(@, delta), delta)]
    ELSE w

\* if self.state == Typed { self.death_animation.advance_by(delta) }
AdvanceStep(w, delta) ==
    IF w.state = "Typed"
    THEN [w EXCEPT !.death_animation = advance_by(@, delta)]
    ELSE w

\* a faulty variant: the index wraps around instead of yielding None
next_ch_wrapping(w) == w.word[(w.num_typed % Len(w.word)) + 1]

\* self.word.get(self.num_typed): the next untyped character, or None
next_ch(w) ==
    IF w.num_typed < Len(w.word) THEN w.word[w.num_typed + 1] ELSE None

\* self.position += self.velocity
Move(w) ==
    [w EXCEPT !.position = <<@[1] + w.velocity[1], @[2] + w.velocity[2]>>]

\* a faulty variant: any key counts as the expected one
KeyMatchesAny(key_pressed, key_code) == TRUE

\* if key_pressed == key_code
KeyMatches(key_pressed, key_code) == key_pressed = key_code

\* a faulty variant: a word with no untyped character left moves on
TypedStepMoving(w) ==
    Move(IF w.state = "Active" THEN [w EXCEPT !.state = "Typed"] ELSE w)

\* the else-if branch: a word with no untyped character left
TypedStep(w) ==
    IF w.state = "Active" THEN [w EXCEPT !.state = "Typed"] ELSE w

\* a faulty variant: the Active -> Typed test also runs after a match
MatchOrTransitionSameFrame(w, key_pressed) ==
    IF next_ch(w) # None
    THEN IF key_pressed # None /\ ch_to_keycode(next_ch(w)) = None
         THEN [word |-> w, ok |-> FALSE]
         ELSE LET typed == IF key_pressed # None
                              /\ KeyMatches(key_pressed, ch_to_keycode(next_ch(w)))
                           THEN [w EXCEPT !.num_typed = @ + 1]
                           ELSE w
              IN  [word |-> IF next_ch(typed) = None THEN TypedStep(Move(typed))
                                                     ELSE Move(typed),
                   ok |-> TRUE]
    ELSE [word |-> TypedStep(w), ok |-> TRUE]

\* a faulty variant: the else-if is nested under if let Some(key_pressed)
MatchOrTransitionOnKey(w, key_pressed) ==
    IF key_pressed # None
    THEN IF next_ch(w) # None
         THEN IF ch_to_keycode(next_ch(w)) = None
              THEN [word |-> w, ok |-> FALSE]
              ELSE [word |-> Move(IF KeyMatches(key_pressed, ch_to_keycode(next_ch(w)))
                                  THEN [w EXCEPT !.num_typed = @ + 1]
                                  ELSE w),
                    ok |-> TRUE]
         ELSE [word |-> TypedStep(w), ok |-> TRUE]
    ELSE [word |-> IF next_ch(w) # None THEN Move(w) ELSE w, ok |-> TRUE]

\* a faulty variant: a character without a key code counts as a mismatch
MatchOrTransitionLenient(w, key_pressed) ==
    IF next_ch(w) # None
    THEN [word |-> Move(IF key_pressed # None
                           /\ ch_to_keycode(next_ch(w)) # None
                           /\ KeyMatches(key_pressed, ch_to_keycode(next_ch(w)))
                        THEN [w EXCEPT !.num_typed = @ + 1]
                        ELSE w),
          ok |-> TRUE]
    ELSE [word |-> TypedStep(w), ok |-> TRUE]

\* the if-let / else-if of Word::update: match the key against the next
\* character and move, or turn a fully typed Active word into a Typed one.
\* The result is the word and whether the update returns Ok.
MatchOrTransition(w, key_pressed) ==
    IF next_ch(w) # None
    THEN IF key_pressed # None /\ ch_to_keycode(next_ch(w)) = None
         THEN [word |-> w, ok |-> FALSE]
         ELSE [word |-> Move(IF key_pressed # None
                                /\ KeyMatches(key_pressed, ch_to_keycode(next_ch(w)))
                             THEN [w EXCEPT !.num_typed = @ + 1]
                             ELSE w),
               ok |-> TRUE]
    ELSE [word |-> TypedStep(w), ok |-> TRUE]

\* Word::update
WordUpdate(w, key_pressed, delta) ==
    MatchOrTransition(AdvanceStep(DeathStep(w), delta), key_pressed)

\* the value of the animation at a clock: the colour of the first keyframe
\* at 0, of the last keyframe from the duration on, a colour between two
\* keyframes otherwise
animation_value(death_animation) ==
    IF death_animation = 0 THEN "BrightYellow"
    ELSE IF death_animation >= duration THEN "Bg"
    ELSE "Tween"

\* AnimationSequence::now_strict(): the Options it may return.  A finished
\* sequence may yield no value, or the value of its last keyframe.
now_strict(death_animation) ==
    IF finished(death_animation)
    THEN {None, animation_value(death_animation)}
    ELSE {animation_value(death_animation)}

\* Option::unwrap_or_else
unwrap_or_else(option, default) == IF option = None THEN default ELSE option

\* a faulty variant: a Typed word keeps the colour of the typed prefix of an
\* Active word
typed_color_highlight(w) ==
    CASE w.state = "Active" -> {"BrightYellow"}
      [] w.state = "Typed" -> {"BrightYellow"}
      [] w.state = "Dead" -> {"Bg"}

\* let typed_color = match self.state { .. }: the colours it may get
typed_color(w) ==
    CASE w.state = "Active" -> {"BrightYellow"}
      [] w.state = "Typed" -> {unwrap_or_else(o, "Bg") : o \in now_strict(w.death_animation)}
      [] w.state = "Dead" -> {"Bg"}

\* Word::draw: the Texts it may build, each the fragment of the typed
\* characters followed by the fragment of the others
Word_draw(w) ==
    { << [text |-> SubSeq(w.word, 1, w.num_typed), color |-> c],
         [text |-> SubSeq(w.word, w.num_typed + 1, Len(w.word)), color |-> w.color] >>
      : c \in typed_color(w) }

---------------------------------------------------------------------------
(* Menu and MainMenu (src/src/menu.rs) *)

NEW_GAME == "New Game"
RESUME == "Resume"
MAIN_MENU == "Main Menu"
EXIT == "Exit"

\* Menu::new: the items and the selection at index 0 (indices count from 0)
Menu_new(menu_items) ==
    [ menu_items |-> menu_items, selected_index |-> 0 ]

\* a faulty variant: the main menu offers "Resume" from the start
MainMenu_with_resume ==
    [ menu |-> Menu_new(<<RESUME, NEW_GAME, EXIT>>), show_resume |-> FALSE ]

\* MainMenu::new
MainMenu_new ==
    [ menu |-> Menu_new(<<NEW_GAME, EXIT>>), show_resume |-> FALSE ]

\* a faulty variant: the item is inserted or removed whatever show_resume is
show_resume_unguarded(m, show) ==
    [ menu |-> [m.menu EXCEPT !.menu_items = IF show THEN <<RESUME>> \o @
                                                     ELSE Tail(@)],
      show_resume |-> show ]

\* MainMenu::show_resume
show_resume(m, show) ==
    IF show # m.show_resume
    THEN [ menu |-> [m.menu EXCEPT !.menu_items = IF show THEN <<RESUME>> \o @
                                                          ELSE Tail(@)],
           show_resume |-> show ]
    ELSE m

\* Menu::reset_selection
reset_selection(m) == [m EXCEPT !.selected_index = 0]

\* Menu::selected_item
selected_item(m) == m.menu_items[m.selected_index + 1]

\* a faulty variant: the selection stops at the last item
next_selection_clamped(m) ==
    [m EXCEPT !.selected_index =
        IF @ + 1 < Len(m.menu_items) THEN @ + 1 ELSE @]

\* Menu::next_selection
next_selection(m) ==
    [m EXCEPT !.selected_index = (@ + 1) % Len(m.menu_items)]

\* a faulty variant: the selection stops at the first item
prev_selection_clamped(m) ==
    [m EXCEPT !.selected_index = IF @ = 0 THEN 0 ELSE @ - 1]

\* a faulty variant: from the first item the selection goes one past the
\* last
prev_selection_past_end(m) ==
    [m EXCEPT !.selected_index = IF @ = 0 THEN Len(m.menu_items) ELSE @ - 1]

\* Menu::prev_selection
prev_selection(m) ==
    [m EXCEPT !.selected_index = IF @ = 0 THEN Len(m.menu_items) - 1 ELSE @ - 1]

\* the keycodes a key_down_event may carry: the four the handlers test and
\* one other key
KeyCodes == {"Up", "Down", "Enter", "Escape", "A"}

\* Menu::key_down_event
Menu_key_down_event(m, k) ==
    CASE k = "Up" -> prev_selection(m)
      [] k = "Down" -> next_selection(m)
      [] OTHER -> m

\* the pause menu of GameManager::new
PauseMenu_new == Menu_new(<<RESUME, MAIN_MENU, EXIT>>)

\* the items of the menus of the tests
ItemNames == {"Item 1", "Item 2", "Item 3"}

\* no selection move made yet
NoRun == [kind |-> None, start |-> 0, count |-> 0]

\* the run after a move of the given kind from the menu m: a run goes on
\* while the moves are of one kind, and starts again after as many moves as
\* the menu has items
RunAfter(run, kind, m) ==
    IF run.kind = kind /\ run.count < Len(m.menu_items)
    THEN [run EXCEPT !.count = @ + 1]
    ELSE [kind |-> kind, start |-> m.selected_index, count |-> 1]

\* the manager while a Game is played, for the specifications of the Game
ManagerPlaying ==
    /\ game_state = "Active"
    /\ main_menu = show_resume(MainMenu_new, TRUE)
    /\ pause_menu = PauseMenu_new
    /\ frames = 0
    /\ resumed = FALSE

\* no stand-alone menu
NoMenu ==
    /\ menu = Menu_new(<<EXIT>>)
    /\ menu_run = NoRun

\* no frame yet
NoFrame == timer_delta = 0

\* nothing drawn
NoDraw == rendered = << >>

---------------------------------------------------------------------------
(* Game *)

\* Game::new: the ring labels (no velocity, colour Bg2) followed by the
\* vocabulary words (colour Fg, a velocity towards the player).  The model's
\* ring is one label; its vocabulary is any NumVocab texts.
Labels ==
    { << [Word_new(t, Origin, ZeroVelocity) EXCEPT !.color = "Bg2"] >> : t \in LabelTexts }

Vocabulary ==
    { [i \in 1..NumVocab |-> Word_new(t[i], Origin, v[i])]
      : t \in [1..NumVocab -> Texts(Alphabet)], v \in [1..NumVocab -> Velocities] }

Game_new == { l \o v : l \in Labels, v \in Vocabulary }

\* the held-key sets the host may report
HeldSets == SUBSET Keys

\* a faulty variant: level detection, any held key is reported
NewKeypressLevel(held, previous) ==
    IF held = {} THEN {None} ELSE held

\* a faulty variant: with no key newly held, a key that is still held is
\* reported again
NewKeypressAutoRepeat(held, previous) ==
    IF held = {} THEN {None}
    ELSE IF held \ previous # {} THEN held \ previous
    ELSE held

\* a faulty variant: with several keys held and none of them new, a key the
\* earlier frame passed over is reported after all
NewKeypressLate(held, previous) ==
    IF held \ previous # {} THEN held \ previous
    ELSE IF Cardinality(held) >= 2 THEN held
    ELSE {None}

\* the values the new_keypress block may yield: the first key of the held
\* set that was not held in the previous frame, in the set's iteration
\* order, which the HashSet leaves open
NewKeypress(held, previous) ==
    IF held \ previous = {} THEN {None} ELSE held \ previous

\* a faulty variant: a subtraction that goes below 0
unchecked_sub(n, m) == n - m

\* usize::saturating_sub
saturating_sub(n, m) == IF n - m < 0 THEN 0 ELSE n - m

\* a faulty variant: a cooldown the end of the same update uses up
ResetFramesOne == 2 - 1

\* the cooldown assigned when a word goes Active -> Typed
ResetFrames == 2

\* a faulty variant: the reset does not test the state
ResetTypedAnyState(w) == [w EXCEPT !.num_typed = 0]

\* a faulty variant: the reset also puts the word back to Active
ResetWord(w) == [w EXCEPT !.num_typed = 0, !.state = "Active"]

\* a faulty variant: the cooldown frame also moves the word
ResetTypedMoving(w) ==
    Move(IF w.state = "Active" THEN [w EXCEPT !.num_typed = 0] ELSE w)

\* a faulty variant: the reset spares only the Dead words
ResetTypedUnlessDead(w) ==
    IF w.state # "Dead" THEN [w EXCEPT !.num_typed = 0] ELSE w

\* if word.state == Active { word.num_typed = 0 }
ResetTyped(w) ==
    IF w.state = "Active" THEN [w EXCEPT !.num_typed = 0] ELSE w

\* a faulty variant: the key is used up by the first word that matches it
RECURSIVE UpdateWordsOneKey(_, _, _, _, _)
UpdateWordsOneKey(ws, i, reset, key, delta) ==
    IF i > Len(ws)
    THEN [words |-> ws, reset_typed |-> reset, ok |-> TRUE]
    ELSE IF reset > 0
    THEN UpdateWordsOneKey([ws EXCEPT ![i] = ResetTyped(@)], i + 1, reset, key, delta)
    ELSE LET r == WordUpdate(ws[i], key, delta)
             updated == [ws EXCEPT ![i] = r.word]
         IN  IF ~r.ok
             THEN [words |-> updated, reset_typed |-> reset, ok |-> FALSE]
             ELSE IF ws[i].state = "Active" /\ r.word.state = "Typed"
             THEN [words |-> updated, reset_typed |-> ResetFrames, ok |-> TRUE]
             ELSE UpdateWordsOneKey(updated, i + 1, reset,
                                    IF r.word.num_typed > ws[i].num_typed THEN None ELSE key,
                                    delta)

\* a faulty variant: the loop goes on after a word went Active -> Typed
RECURSIVE UpdateWordsNoBreak(_, _, _, _, _)
UpdateWordsNoBreak(ws, i, reset, key, delta) ==
    IF i > Len(ws)
    THEN [words |-> ws, reset_typed |-> reset, ok |-> TRUE]
    ELSE IF reset > 0
    THEN UpdateWordsNoBreak([ws EXCEPT ![i] = ResetTyped(@)], i + 1, reset, key, delta)
    ELSE LET r == WordUpdate(ws[i], key, delta)
             updated == [ws EXCEPT ![i] = r.word]
         IN  IF ~r.ok
             THEN [words |-> updated, reset_typed |-> reset, ok |-> FALSE]
             ELSE IF ws[i].state = "Active" /\ r.word.state = "Typed"
             THEN UpdateWordsNoBreak(updated, i + 1, ResetFrames, key, delta)
             ELSE UpdateWordsNoBreak(updated, i + 1, reset, key, delta)

\* the for loop of Game::update from word i on: the words, the cooldown and
\* whether every Word::update returned Ok
RECURSIVE UpdateWords(_, _, _, _, _)
UpdateWords(ws, i, reset, key, delta) ==
    IF i > Len(ws)
    THEN [words |-> ws, reset_typed |-> reset, ok |-> TRUE]
    ELSE IF reset > 0
    THEN UpdateWords([ws EXCEPT ![i] = ResetTyped(@)], i + 1, reset, key, delta)
    ELSE LET r == WordUpdate(ws[i], key, delta)
             updated == [ws EXCEPT ![i] = r.word]
         IN  IF ~r.ok
             THEN [words |-> updated, reset_typed |-> reset, ok |-> FALSE]
             ELSE IF ws[i].state = "Active" /\ r.word.state = "Typed"
             THEN [words |-> updated, reset_typed |-> ResetFrames, ok |-> TRUE]
             ELSE UpdateWords(updated, i + 1, reset, key, delta)

InBounds(p) ==
    /\ p[1] \in (0 - MaxCoord)..MaxCoord
    /\ p[2] \in (0 - MaxCoord)..MaxCoord

\* some word went Active -> Typed between the two collections
Transitioned(before, after) ==
    \E i \in 1..Len(before) : before[i].state = "Active" /\ after[i].state = "Typed"

Init ==
    /\ words \in Game_new
    /\ reset_typed = 0
    /\ keys_pressed = {}
    /\ new_keypress = None
    /\ result = "Ok"
    /\ since_typed = SinceCap
    /\ calls = 0
    /\ ManagerPlaying
    /\ NoMenu
    /\ NoFrame
    /\ NoDraw

\* a faulty variant: a cooldown frame leaves the stored key set as it was
Game_update_keeping_keys(delta) ==
    /\ \A i \in 1..Len(words) : InBounds(words[i].position)
    /\ \E held \in HeldSets :
         \E key \in NewKeypress(held, keys_pressed) :
            LET r == UpdateWords(words, 1, reset_typed, key, delta)
            IN  /\ words' = r.words
                /\ reset_typed' = IF r.ok THEN saturating_sub(r.reset_typed, 1)
                                          ELSE r.reset_typed
                /\ keys_pressed' = IF reset_typed > 0 THEN keys_pressed ELSE held
                /\ new_keypress' = key
                /\ result' = IF r.ok THEN "Ok" ELSE "Err"
                /\ since_typed' = IF Transitioned(words, r.words) THEN 0
                                  ELSE IF since_typed < SinceCap THEN since_typed + 1
                                  ELSE since_typed

\* Game::update with the held keys and the frame delta the host reports
Game_update(delta) ==
    /\ \A i \in 1..Len(words) : InBounds(words[i].position)
    /\ \E held \in HeldSets :
         \E key \in NewKeypress(held, keys_pressed) :
            LET r == UpdateWords(words, 1, reset_typed, key, delta)
            IN  /\ words' = r.words
                /\ reset_typed' = IF r.ok THEN saturating_sub(r.reset_typed, 1)
                                          ELSE r.reset_typed
                /\ keys_pressed' = held
                /\ new_keypress' = key
                /\ result' = IF r.ok THEN "Ok" ELSE "Err"
                /\ since_typed' = IF Transitioned(words, r.words) THEN 0
                                  ELSE IF since_typed < SinceCap THEN since_typed + 1
                                  ELSE since_typed

\* a frame of a Game that is played
GameUpdate ==
    /\ \E delta \in Deltas : Game_update(delta)
    /\ UNCHANGED <<calls, manager_vars, menu_vars, timer_delta, rendered>>

Next == GameUpdate

Spec == Init /\ [][Next]_vars

---------------------------------------------------------------------------
(* A Game whose updates keep coming, each with time passing *)

\* the frame deltas of a host whose clock moves between two frames
PositiveDeltas == { delta \in Deltas : delta > 0 }

\* a frame of a Game that is played, with a strictly positive delta
GameUpdateLive ==
    /\ \E delta \in PositiveDeltas : Game_update(delta)
    /\ UNCHANGED <<calls, manager_vars, menu_vars, timer_delta, rendered>>

NextLive == GameUpdateLive

\* the event loop calls Game::update once per frame for as long as the mode
\* is Active: an update that can happen does happen
SpecLive == Init /\ [][NextLive]_vars /\ WF_vars(GameUpdateLive)

---------------------------------------------------------------------------
(* A stand-alone word: Word::new with any text, Word::update with any key *)

InitWord ==
    /\ words \in { <<Word_new(t, Origin, v)>>
                   : t \in Texts(AnyAlphabet), v \in Velocities \cup {ZeroVelocity} }
    /\ reset_typed = 0
    /\ keys_pressed = {}
    /\ new_keypress = None
    /\ result = "Ok"
    /\ since_typed = SinceCap
    /\ calls = 0
    /\ ManagerPlaying
    /\ NoMenu
    /\ NoFrame
    /\ NoDraw

WordUpdateCall ==
    /\ calls < MaxCalls
    /\ \E key_pressed \in Keys \cup {None}, delta \in Deltas :
         LET r == WordUpdate(words[1], key_pressed, delta)
         IN  /\ words' = <<r.word>>
             /\ new_keypress' = key_pressed
             /\ result' = IF r.ok THEN "Ok" ELSE "Err"
    /\ calls' = calls + 1
    /\ rendered' = << >>
    /\ UNCHANGED <<reset_typed, keys_pressed, since_typed, manager_vars, menu_vars, timer_delta>>

\* Word::draw on the stand-alone word
WordDrawCall ==
    /\ rendered' \in Word_draw(words[1])
    /\ UNCHANGED <<game_vars, calls, manager_vars, menu_vars, timer_delta>>

NextWord == WordUpdateCall \/ WordDrawCall

SpecWord == InitWord /\ [][NextWord]_vars

---------------------------------------------------------------------------
(* A Game that holds one word of any text, under Game::update *)

\* a frame of the one-word Game, with the delta the timer reported
WordGameUpdate ==
    /\ \E delta \in Deltas :
         /\ Game_update(delta)
         /\ timer_delta' = delta
    /\ UNCHANGED <<calls, manager_vars, menu_vars, rendered>>

NextWordGame == WordGameUpdate

SpecWordGame == InitWord /\ [][NextWordGame]_vars

---------------------------------------------------------------------------
(* Game::new at full scale: the 13 ring labels and the 171 words of WORD_LIST *)

\* the labels of the (label, angle) pairs of the first loop, in its order
RingLabels == <<
    <<"0">>, <<"1", "5">>, <<"3", "0">>, <<"4", "5">>, <<"6", "0">>, <<"7", "5">>,
    <<"9", "0">>, <<"1", "0", "5">>, <<"1", "2", "0">>, <<"1", "3", "5">>,
    <<"1", "5", "0">>, <<"1", "6", "5">>, <<"1", "8", "0">>
>>

WORD_LIST == <<
    <<"a", "n", "d">>, <<"a", "r", "e">>, <<"a", "p", "e">>, <<"a", "c", "e">>, <<"a", "c", "t">>, <<"a", "s", "k">>,
    <<"a", "r", "m">>, <<"a", "g", "e">>, <<"a", "g", "o">>, <<"a", "i", "r">>, <<"a", "t", "e">>, <<"a", "l", "l">>,
    <<"b", "u", "t">>, <<"b", "y", "e">>, <<"b", "a", "d">>, <<"b", "i", "g">>, <<"b", "e", "d">>, <<"b", "a", "t">>,
    <<"b", "o", "y">>, <<"b", "u", "s">>, <<"b", "a", "g">>, <<"b", "o", "x">>, <<"b", "i", "t">>, <<"b", "e", "e">>,
    <<"b", "u", "y">>, <<"b", "u", "n">>, <<"c", "u", "b">>, <<"c", "a", "t">>, <<"c", "a", "r">>, <<"c", "u", "t">>,
    <<"c", "o", "w">>, <<"c", "r", "y">>, <<"c", "a", "b">>, <<"c", "a", "n">>, <<"d", "a", "d">>, <<"d", "a", "b">>,
    <<"d", "a", "m">>, <<"d", "i", "d">>, <<"d", "u", "g">>, <<"d", "e", "n">>, <<"d", "o", "t">>, <<"d", "i", "p">>,
    <<"d", "a", "y">>, <<"e", "a", "r">>, <<"e", "y", "e">>, <<"e", "a", "t">>, <<"e", "n", "d">>, <<"e", "l", "f">>,
    <<"e", "g", "g">>, <<"f", "a", "r">>, <<"f", "a", "t">>, <<"f", "e", "w">>, <<"f", "a", "n">>, <<"f", "u", "n">>,
    <<"f", "i", "t">>, <<"f", "i", "n">>, <<"f", "o", "x">>, <<"f", "i", "x">>, <<"f", "l", "y">>, <<"f", "r", "y">>,
    <<"f", "o", "r">>, <<"g", "o", "t">>, <<"g", "e", "t">>, <<"g", "o", "d">>, <<"g", "e", "l">>, <<"g", "a", "s">>,
    <<"h", "a", "t">>, <<"h", "i", "t">>, <<"h", "a", "s">>, <<"h", "a", "d">>, <<"h", "o", "w">>, <<"h", "e", "r">>,
    <<"h", "i", "s">>, <<"h", "e", "n">>, <<"i", "n", "k">>, <<"i", "c", "e">>, <<"i", "l", "l">>, <<"j", "a", "b">>,
    <<"j", "u", "g">>, <<"j", "e", "t">>, <<"j", "a", "m">>, <<"j", "a", "r">>, <<"j", "o", "b">>, <<"j", "o", "g">>,
    <<"k", "i", "t">>, <<"k", "e", "y">>, <<"l", "o", "t">>, <<"l", "i", "t">>, <<"l", "e", "t">>, <<"l", "a", "y">>,
    <<"m", "a", "t">>, <<"m", "a", "n">>, <<"m", "a", "d">>, <<"m", "u", "g">>, <<"m", "i", "x">>, <<"m", "a", "p">>,
    <<"m", "u", "m">>, <<"m", "u", "d">>, <<"m", "o", "m">>, <<"m", "a", "y">>, <<"m", "e", "t">>, <<"n", "e", "t">>,
    <<"n", "e", "w">>, <<"n", "a", "p">>, <<"n", "o", "w">>, <<"n", "o", "d">>, <<"n", "e", "t">>, <<"n", "o", "t">>,
    <<"n", "u", "t">>, <<"o", "a", "r">>, <<"o", "n", "e">>, <<"o", "u", "t">>, <<"o", "w", "l">>, <<"o", "l", "d">>,
    <<"o", "w", "n">>, <<"o", "d", "d">>, <<"o", "u", "r">>, <<"p", "e", "t">>, <<"p", "a", "t">>, <<"p", "e", "g">>,
    <<"p", "a", "w">>, <<"p", "u", "p">>, <<"p", "i", "t">>, <<"p", "u", "t">>, <<"p", "o", "t">>, <<"p", "o", "p">>,
    <<"p", "i", "n">>, <<"r", "a", "t">>, <<"r", "a", "g">>, <<"r", "u", "b">>, <<"r", "o", "w">>, <<"r", "u", "g">>,
    <<"r", "u", "n">>, <<"r", "a", "p">>, <<"r", "a", "m">>, <<"s", "o", "w">>, <<"s", "e", "e">>, <<"s", "a", "w">>,
    <<"s", "e", "t">>, <<"s", "i", "t">>, <<"s", "i", "r">>, <<"s", "a", "t">>, <<"s", "o", "b">>, <<"t", "a", "p">>,
    <<"t", "i", "p">>, <<"t", "o", "p">>, <<"t", "u", "g">>, <<"t", "o", "w">>, <<"t", "o", "e">>, <<"t", "a", "n">>,
    <<"t", "e", "n">>, <<"t", "w", "o">>, <<"u", "s", "e">>, <<"v", "a", "n">>, <<"v", "e", "t">>, <<"w", "a", "s">>,
    <<"w", "e", "t">>, <<"w", "i", "n">>, <<"w", "o", "n">>, <<"w", "i", "g">>, <<"w", "a", "r">>, <<"w", "h", "y">>,
    <<"w", "h", "o">>, <<"w", "a", "y">>, <<"w", "o", "w">>, <<"y", "o", "u">>, <<"y", "e", "s">>, <<"y", "a", "k">>,
    <<"y", "e", "t">>, <<"z", "i", "p">>, <<"z", "a", "p">>
>>

\* the bijections of 1..n
Bijections(n) ==
    { p \in [1..n -> 1..n] : \A i, j \in 1..n : p[i] = p[j] => i = j }

\* a faulty variant: every place draws an entry of its own, with repeats
Replacements(n) == [1..n -> 1..n]

\* the ways the shuffle may rearrange the first ShuffleWindow places
Rearrangements(n) == Bijections(n)

\* word_list.shuffle(): the orders the shuffle may leave the list in.  The
\* model lets it rearrange the first ShuffleWindow entries in every way and
\* keeps the others in place.
Shuffles ==
    { [i \in 1..Len(WORD_LIST) |->
          IF i <= ShuffleWindow THEN WORD_LIST[p[i]] ELSE WORD_LIST[i]]
      : p \in Rearrangements(ShuffleWindow) }

\* the two loops of Game::new: a label per pair, then a word per entry of
\* the shuffled list
GameNewWords ==
    { [i \in 1..(Len(RingLabels) + Len(word_list)) |->
          IF i <= Len(RingLabels)
          THEN [Word_new(RingLabels[i], Origin, ZeroVelocity) EXCEPT !.color = "Bg2"]
          ELSE Word_new(word_list[i - Len(RingLabels)], Origin, v)]
      : word_list \in Shuffles, v \in Velocities }

\* let mut words = vec![]
InitLayout ==
    /\ words = << >>
    /\ reset_typed = 0
    /\ keys_pressed = {}
    /\ new_keypress = None
    /\ result = "Ok"
    /\ since_typed = SinceCap
    /\ calls = 0
    /\ ManagerPlaying
    /\ NoMenu
    /\ NoFrame
    /\ NoDraw

\* the body of Game::new from the empty vector to the Game it returns
GameNewCall ==
    /\ words = << >>
    /\ words' \in GameNewWords
    /\ reset_typed' = 0
    /\ keys_pressed' = {}
    /\ UNCHANGED <<new_keypress, result, since_typed, calls, manager_vars, menu_vars, timer_delta, rendered>>

NextLayout == GameNewCall

SpecLayout == InitLayout /\ [][NextLayout]_vars

---------------------------------------------------------------------------
(* A stand-alone Menu: Menu::new with any items, under key events *)

RECURSIVE ItemLists(_)
ItemLists(n) ==
    IF n = 0 THEN {<< >>}
    ELSE {Append(l, item) : l \in ItemLists(n - 1), item \in ItemNames}

InitMenu ==
    /\ menu \in {Menu_new(l) : l \in UNION {ItemLists(n) : n \in 1..MaxItems}}
    /\ menu_run = NoRun
    /\ words \in { <<Word_new(<<"a">>, Origin, ZeroVelocity)>> }
    /\ reset_typed = 0
    /\ keys_pressed = {}
    /\ new_keypress = None
    /\ result = "Ok"
    /\ since_typed = SinceCap
    /\ calls = 0
    /\ ManagerPlaying
    /\ NoFrame
    /\ NoDraw

\* Menu::key_down_event on the stand-alone menu
MenuKeyDown ==
    /\ \E k \in KeyCodes :
         /\ menu' = Menu_key_down_event(menu, k)
         /\ menu_run' = IF k \in {"Up", "Down"} THEN RunAfter(menu_run, k, menu)
                                                ELSE menu_run
    /\ UNCHANGED <<game_vars, calls, manager_vars, timer_delta, rendered>>

\* Menu::reset_selection on the stand-alone menu
MenuReset ==
    /\ menu' = reset_selection(menu)
    /\ menu_run' = NoRun
    /\ UNCHANGED <<game_vars, calls, manager_vars, timer_delta, rendered>>

NextMenu == MenuKeyDown \/ MenuReset

SpecMenu == InitMenu /\ [][NextMenu]_vars

---------------------------------------------------------------------------
(* GameManager: the game mode, the menus and the Game *)

\* GameManager::new
InitManager ==
    /\ game_state = "MainMenu"
    /\ words \in Game_new
    /\ reset_typed = 0
    /\ keys_pressed = {}
    /\ main_menu = MainMenu_new
    /\ pause_menu = PauseMenu_new
    /\ new_keypress = None
    /\ result = "Ok"
    /\ since_typed = SinceCap
    /\ calls = 0
    /\ frames = 0
    /\ resumed = FALSE
    /\ NoMenu
    /\ NoFrame
    /\ NoDraw

\* GameManager::update in the Active mode: Game::update
ManagerUpdateActive ==
    /\ game_state = "Active"
    /\ frames < MaxFrames
    /\ \E delta \in Deltas : Game_update(delta)
    /\ frames' = frames + 1
    /\ resumed' = FALSE
    /\ UNCHANGED <<calls, game_state, main_menu, pause_menu, menu_vars, timer_delta, rendered>>

\* a faulty variant: the Game is updated behind the menus too
ManagerUpdateBehindMenu ==
    /\ game_state \in {"MainMenu", "Paused"}
    /\ frames < MaxFrames
    /\ \E delta \in Deltas : Game_update(delta)
    /\ frames' = frames + 1
    /\ UNCHANGED <<calls, game_state, main_menu, pause_menu, resumed, menu_vars, timer_delta, rendered>>

\* GameManager::update in the other modes: Menu::update, which does nothing
ManagerUpdateMenu ==
    /\ game_state \in {"MainMenu", "Paused"}
    /\ UNCHANGED <<game_vars, calls, manager_vars, menu_vars, timer_delta, rendered>>

\* a faulty variant: New Game goes on with the Game there is
NewGameKeep ==
    /\ UNCHANGED game_vars
    /\ frames' = 0

\* self.game = Game::new(screen_width, screen_height)
NewGame ==
    /\ words' \in Game_new
    /\ reset_typed' = 0
    /\ keys_pressed' = {}
    /\ new_keypress' = None
    /\ result' = "Ok"
    /\ since_typed' = SinceCap
    /\ frames' = 0

\* GameManager::key_down_event, the Active arm
KeyDownActive ==
    /\ game_state = "Active"
    /\ \E k \in KeyCodes :
         game_state' = IF k = "Escape" THEN "Paused" ELSE "Active"
    /\ resumed' = FALSE
    /\ UNCHANGED <<game_vars, calls, main_menu, pause_menu, frames, menu_vars, timer_delta, rendered>>

\* GameManager::key_down_event, the MainMenu arm
KeyDownMainMenu ==
    /\ game_state = "MainMenu"
    /\ \E k \in KeyCodes :
         IF k = "Enter"
         THEN IF selected_item(main_menu.menu) = NEW_GAME
              THEN /\ NewGame
                   /\ game_state' = "Active"
                   /\ main_menu' = show_resume(main_menu, TRUE)
                   /\ resumed' = FALSE
              ELSE IF selected_item(main_menu.menu) = RESUME
              THEN /\ game_state' = "Active"
                   /\ resumed' = TRUE
                   /\ UNCHANGED <<game_vars, main_menu, frames>>
              ELSE UNCHANGED <<game_vars, game_state, main_menu, frames, resumed>>
         ELSE /\ main_menu' = [main_menu EXCEPT !.menu = Menu_key_down_event(@, k)]
              /\ UNCHANGED <<game_vars, game_state, frames, resumed>>
    /\ UNCHANGED <<calls, pause_menu, menu_vars, timer_delta, rendered>>

\* a faulty variant: leaving the pause menu for the Game clears the typing
\* progress and the cooldown
KeyDownPausedClearing ==
    /\ game_state = "Paused"
    /\ \E k \in KeyCodes :
         IF k = "Enter" \/ k = "Escape"
         THEN /\ game_state' =
                     IF k = "Escape" \/ selected_item(pause_menu) = RESUME THEN "Active"
                     ELSE IF selected_item(pause_menu) = MAIN_MENU THEN "MainMenu"
                     ELSE "Paused"
              /\ resumed' = (game_state' = "Active")
              /\ pause_menu' = reset_selection(pause_menu)
              /\ words' = IF game_state' = "Active"
                          THEN [i \in 1..Len(words) |-> ResetTyped(words[i])]
                          ELSE words
              /\ reset_typed' = IF game_state' = "Active" THEN 0 ELSE reset_typed
         ELSE /\ pause_menu' = Menu_key_down_event(pause_menu, k)
              /\ UNCHANGED <<game_state, resumed, words, reset_typed>>
    /\ UNCHANGED <<keys_pressed, new_keypress, result, since_typed, calls, main_menu, frames, menu_vars, timer_delta, rendered>>

\* GameManager::key_down_event, the Paused arm
KeyDownPaused ==
    /\ game_state = "Paused"
    /\ \E k \in KeyCodes :
         IF k = "Enter"
         THEN /\ game_state' =
                     IF selected_item(pause_menu) = RESUME THEN "Active"
                     ELSE IF selected_item(pause_menu) = EXIT THEN "Paused"
                     ELSE IF selected_item(pause_menu) = MAIN_MENU THEN "MainMenu"
                     ELSE "Paused"
              /\ resumed' = (selected_item(pause_menu) = RESUME)
              /\ pause_menu' = reset_selection(pause_menu)
         ELSE IF k = "Escape"
         THEN /\ game_state' = "Active"
              /\ resumed' = TRUE
              /\ pause_menu' = reset_selection(pause_menu)
         ELSE /\ pause_menu' = Menu_key_down_event(pause_menu, k)
              /\ UNCHANGED <<game_state, resumed>>
    /\ UNCHANGED <<game_vars, calls, main_menu, frames, menu_vars, timer_delta, rendered>>

NextManager ==
    \/ ManagerUpdateActive
    \/ ManagerUpdateMenu
    \/ KeyDownActive
    \/ KeyDownMainMenu
    \/ KeyDownPaused

SpecManager == InitManager /\ [][NextManager]_vars

---------------------------------------------------------------------------
(* Properties of the game (Spec) *)

Rank(state) == CASE state = "Active" -> 0 [] state = "Typed" -> 1 [] state = "Dead" -> 2

Full(w) == w.num_typed = Len(w.word)

\* C1: after any sequence of Game updates every word of the collection has
\* 0 <= num_typed <= length of its text.
C1_TypedCountInRange ==
    \A i \in 1..Len(words) :
        /\ 0 <= words[i].num_typed
        /\ words[i].num_typed <= Len(words[i].word)

\* a word was typed to its last character and went on to Dead, next to a
\* word that was typed in part
C1_Witness ==
    /\ \E i \in 1..Len(words) : Full(words[i]) /\ words[i].state = "Dead"
    /\ \E j \in 1..Len(words) : words[j].num_typed > 0 /\ ~Full(words[j])

\* C2: a word's state only moves Active -> Typed -> Dead: one update changes
\* it by at most one step (never Active -> Dead) and never moves it back.
C2_LifecycleMonotonic ==
    [][ (
        \A i \in 1..Len(words) :
            Rank(words'[i].state) - Rank(words[i].state) \in {0, 1}
        ) ]_vars

\* one word has run through the whole lifecycle while another is Typed
C2_Witness ==
    /\ \E i \in 1..Len(words) : words[i].state = "Dead"
    /\ \E j \in 1..Len(words) : words[j].state = "Typed"

\* C3 as stated: num_typed never decreases while the word is Active and
\* does not change while it is Typed or Dead.
C3_Original ==
    [][ (
        \A i \in 1..Len(words) :
            /\ words[i].state = "Active" => words'[i].num_typed >= words[i].num_typed
            /\ words[i].state # "Active" => words'[i].num_typed = words[i].num_typed
        ) ]_vars

\* C3 as amended: num_typed of an Active word never decreases except in an
\* update that starts with the cooldown running, which sets it to 0; the
\* num_typed of a Typed or Dead word does not change.
C3_Amended ==
    [][ (
        \A i \in 1..Len(words) :
            /\ words[i].state = "Active" =>
                  \/ words'[i].num_typed >= words[i].num_typed
                  \/ reset_typed > 0 /\ words'[i].num_typed = 0
            /\ words[i].state # "Active" => words'[i].num_typed = words[i].num_typed
        ) ]_vars

\* the cooldown update has just run: a Typed word kept its count, an Active
\* word is at 0
C3_Witness ==
    /\ since_typed = 1
    /\ \E i \in 1..Len(words) : words[i].state = "Typed" /\ Full(words[i])
    /\ \E j \in 1..Len(words) : words[j].state = "Active" /\ words[j].num_typed = 0

\* C4: once num_typed equals the length of the text it stays there (the word
\* leaves Active for good and its count never decreases), also when two words
\* become fully typed in the same frame.
C4_FullStaysFull ==
    [][ (
        \A i \in 1..Len(words) : Full(words[i]) => Full(words'[i])
        ) ]_vars

\* C5: the new keypress of a frame is a key held now and not held in the
\* previous frame, or None when there is none; the frames {}, {A}, {A},
\* {A,B} give None, A, None, B.  The detector remembers nothing but the
\* previous held set, so the four frames are four steps of this property.
C5_EdgeDetection ==
    [][ (
        /\ keys_pressed' \ keys_pressed = {} => new_keypress' = None
        /\ keys_pressed' \ keys_pressed # {} =>
              new_keypress' \in keys_pressed' \ keys_pressed
        /\ keys_pressed' = {} => new_keypress' = None
        /\ keys_pressed = {} /\ keys_pressed' = {"A"} => new_keypress' = "A"
        /\ keys_pressed = {"A"} /\ keys_pressed' = {"A"} => new_keypress' = None
        /\ keys_pressed = {"A"} /\ keys_pressed' = {"A", "B"} => new_keypress' = "B"
        ) ]_vars

\* B was reported as new in a frame that holds A and B
C5_Witness ==
    /\ keys_pressed = {"A", "B"}
    /\ new_keypress = "B"

\* C6: the Game update after the one in which a word went Active -> Typed
\* sets num_typed to 0 for every word that is Active and increments no
\* word's num_typed.
C6_ResetAfterTyped ==
    [][ (
        since_typed = 0 =>
            \A i \in 1..Len(words) :
                /\ words[i].state = "Active" => words'[i].num_typed = 0
                /\ words'[i].num_typed <= words[i].num_typed
        ) ]_vars

\* the update after the transition carried the key an Active word waits
\* for, and the word is still at 0
C6_Witness ==
    /\ since_typed = 1
    /\ \E i \in 1..Len(words) :
          /\ words[i].state = "Active"
          /\ words[i].num_typed = 0
          /\ new_keypress = ch_to_keycode(words[i].word[1])

\* C7: the forced reset with typing disabled holds in each of the 2 Game
\* updates after the one in which a word went Active -> Typed.
C7_ResetTwoUpdates ==
    [][ (
        since_typed \in {0, 1} =>
            \A i \in 1..Len(words) :
                /\ words[i].state = "Active" => words'[i].num_typed = 0
                /\ words'[i].num_typed <= words[i].num_typed
        ) ]_vars

\* C11 as stated: in a Game update at most one word's num_typed is
\* incremented by the frame's key.
C11_Original ==
    [][ (
        Cardinality({i \in 1..Len(words) : words'[i].num_typed > words[i].num_typed}) <= 1
        ) ]_vars

\* C11 as amended: the frame's single key is passed to every word the
\* update reaches.  A word's num_typed grows only by 1 and only when the key
\* is the key code of its next untyped character; in an update without
\* cooldown in which no word goes Active -> Typed, every word whose next
\* untyped character has that key code is incremented, however many there
\* are.
C11_Amended ==
    [][ (
        \A i \in 1..Len(words) :
            /\ words'[i].num_typed > words[i].num_typed =>
                  /\ words'[i].num_typed = words[i].num_typed + 1
                  /\ new_keypress' # None
                  /\ ch_to_keycode(next_ch(words[i])) = new_keypress'
            /\ ( /\ reset_typed = 0
                  /\ result' = "Ok"
                  /\ ~Transitioned(words, words')
                  /\ new_keypress' # None
                  /\ next_ch(words[i]) # None
                  /\ ch_to_keycode(next_ch(words[i])) = new_keypress' )
               => words'[i].num_typed = words[i].num_typed + 1
        ) ]_vars

\* the first update carried A: the label and the vocabulary word, both
\* starting with "a", have one character typed each
C11_Witness ==
    /\ Len(words) >= 2
    /\ \A i \in 1..2 :
          /\ words[i].state = "Active"
          /\ Len(words[i].word) = 2
          /\ words[i].num_typed = 1
    /\ words[2].position = <<1, 1>>
    /\ new_keypress = "A"

\* C18: a Typed word becomes Dead only in an update that starts with its
\* animation clock at (or beyond) the duration, and a Dead word is inert: no
\* update changes its state, num_typed, position or animation clock.
C18_DeadIsTerminal ==
    [][ (
        \A i \in 1..Len(words) :
            /\ words[i].state = "Typed" /\ words'[i].state = "Dead" =>
                  words[i].death_animation >= animation_duration * TicksPerSecond
            /\ words'[i].state = "Dead" => words[i].state \in {"Typed", "Dead"}
            /\ words[i].state = "Dead" =>
                  /\ words'[i].state = "Dead"
                  /\ words'[i].num_typed = words[i].num_typed
                  /\ words'[i].position = words[i].position
                  /\ words'[i].death_animation = words[i].death_animation
        ) ]_vars

\* the label died first and has been through the updates in which the
\* vocabulary word went Typed and then Dead
C18_Witness ==
    /\ Len(words) >= 2
    /\ words[1].state = "Dead"
    /\ words[2].state = "Dead"
    /\ words[2].position # <<0, 0>>

\* C19: a word's num_typed grows by at most 1 per Game update, and only by
\* a key that was not held in the previous frame: a key held over several
\* frames in a row advances a word at most once, and a repeated letter is
\* matched only after its key was absent from the held set for a frame.
C19_OnePerPress ==
    [][ (
        \A i \in 1..Len(words) :
            /\ words'[i].num_typed <= words[i].num_typed + 1
            /\ words'[i].num_typed > words[i].num_typed =>
                  LET key_code == ch_to_keycode(words[i].word[words[i].num_typed + 1])
                  IN  /\ key_code \in keys_pressed'
                      /\ key_code \notin keys_pressed
            /\ keys_pressed' \subseteq keys_pressed =>
                  words'[i].num_typed <= words[i].num_typed
        ) ]_vars

\* "aa" typed to its end: A was pressed, released and pressed again
C19_Witness ==
    \E i \in 1..Len(words) :
        /\ words[i].word = <<"a", "a">>
        /\ words[i].num_typed = 2
        /\ words[i].position = <<3, 3>>
        /\ keys_pressed = {"A"}

\* C22: a Game update that starts with reset_typed > 0 updates no word: no
\* word's position, state or animation clock changes; the num_typed of the
\* Active words becomes 0 and that of the others stays, reset_typed goes
\* down by 1, and keys_pressed is the one other thing that may change.
C22_CooldownFrame ==
    [][ (
        reset_typed > 0 =>
            /\ Len(words') = Len(words)
            /\ \A i \in 1..Len(words) :
                  /\ words'[i].position = words[i].position
                  /\ words'[i].state = words[i].state
                  /\ words'[i].death_animation = words[i].death_animation
                  /\ words'[i].word = words[i].word
                  /\ words'[i].velocity = words[i].velocity
                  /\ words'[i].color = words[i].color
                  /\ words'[i].num_typed =
                        IF words[i].state = "Active" THEN 0 ELSE words[i].num_typed
            /\ reset_typed' = reset_typed - 1
            /\ result' = "Ok"
        ) ]_vars

\* the cooldown update has just run with a key newly held: the Active word
\* that had moved before is at 0 and the cooldown is over
C22_Witness ==
    /\ since_typed = 1
    /\ reset_typed = 0
    /\ new_keypress # None
    /\ \E i \in 1..Len(words) :
          /\ words[i].state = "Active"
          /\ words[i].num_typed = 0
          /\ words[i].position # <<0, 0>>
    /\ \E j \in 1..Len(words) : words[j].state = "Typed" /\ words[j].death_animation = 0

\* C23: the words are updated in the order of the collection.  In a Game
\* update in which a word goes Active -> Typed every word behind it is left
\* as it was, and every word before it was updated with the frame's key (it
\* moved if it had an untyped character left, and was incremented exactly
\* when the key was that character's); so at most one word goes Active ->
\* Typed per update, and of several fully typed Active words the first in
\* the collection goes first.
C23_EarlyExit ==
    [][ (
        /\ \A i \in 1..Len(words) :
              words[i].state = "Active" /\ words'[i].state = "Typed" =>
                  /\ \A j \in (i + 1)..Len(words) : words'[j] = words[j]
                  /\ \A j \in 1..(i - 1) :
                        /\ ~(words[j].state = "Active" /\ Full(words[j]))
                        /\ ~Full(words[j]) =>
                              /\ words'[j].position =
                                    <<words[j].position[1] + words[j].velocity[1],
                                      words[j].position[2] + words[j].velocity[2]>>
                              /\ words'[j].num_typed =
                                    IF new_keypress' # None
                                       /\ new_keypress' = ch_to_keycode(words[j].word[words[j].num_typed + 1])
                                    THEN words[j].num_typed + 1
                                    ELSE words[j].num_typed
                        /\ words[j].state = "Typed" =>
                              words'[j].state =
                                  IF words[j].death_animation >= duration THEN "Dead"
                                                                          ELSE "Typed"
        /\ Cardinality({i \in 1..Len(words) :
                           words[i].state = "Active" /\ words'[i].state = "Typed"}) <= 1
        ) ]_vars

\* the label and the vocabulary word were both fully typed and Active: the
\* label has just gone Typed, the vocabulary word has to wait
C23_Witness ==
    /\ Len(words) >= 2
    /\ since_typed = 0
    /\ words[1].state = "Typed"
    /\ words[2].state = "Active"
    /\ Full(words[2])

\* C24: when two or more keys become newly held in one frame, one of them
\* is the frame's new keypress and the others are dropped: no word advances
\* on a dropped key in that frame, and as the stored set becomes the whole
\* held set, a key that stays held is the new keypress of no later frame.
C24_OtherKeysDropped ==
    [][ (
        LET newly == keys_pressed' \ keys_pressed
        IN  /\ Cardinality(newly) >= 2 =>
                  /\ new_keypress' \in newly
                  /\ \A i \in 1..Len(words) :
                        words'[i].num_typed > words[i].num_typed =>
                            ch_to_keycode(words[i].word[words[i].num_typed + 1]) = new_keypress'
                  /\ \A i \in 1..Len(words) :
                        /\ ~Full(words[i])
                        /\ ch_to_keycode(words[i].word[words[i].num_typed + 1])
                              \in newly \ {new_keypress'}
                        => words'[i].num_typed <= words[i].num_typed
            /\ \A key_code \in keys_pressed \cap keys_pressed' :
                  /\ new_keypress' # key_code
                  /\ \A i \in 1..Len(words) :
                        /\ ~Full(words[i])
                        /\ ch_to_keycode(words[i].word[words[i].num_typed + 1]) = key_code
                        => words'[i].num_typed <= words[i].num_typed
        ) ]_vars

\* the first frame of a game held A and B at once: A was dispatched to the
\* label, and the vocabulary word that waits for B got nothing
C24_Witness ==
    /\ Len(words) >= 2
    /\ keys_pressed = {"A", "B"}
    /\ new_keypress = "A"
    /\ \A i \in 1..Len(words) : words[i].state = "Active"
    /\ words[1].num_typed = 1
    /\ words[2].word[1] = "b"
    /\ words[2].num_typed = 0
    /\ words[2].position = <<Origin[1] + words[2].velocity[1], Origin[2] + words[2].velocity[2]>>
    /\ words[2].velocity # ZeroVelocity

\* C29: in every reachable Game state a word that is Typed or Dead has
\* num_typed equal to the length of its text: a word leaves Active only with
\* every character typed, and the cooldown's reset passes it over.
C29_TypedIsFull ==
    \A i \in 1..Len(words) :
        words[i].state \in {"Typed", "Dead"} => words[i].num_typed = Len(words[i].word)

\* the cooldown frame after a two-character word went Typed has run: the
\* word kept its two characters
C29_Witness ==
    /\ since_typed = 1
    /\ reset_typed = 0
    /\ \E i \in 1..Len(words) :
          /\ words[i].state = "Typed"
          /\ Len(words[i].word) = 2
          /\ words[i].num_typed = 2

\* C30: at the end of every Game update that returns Ok reset_typed is 0 or
\* 1: it is 1 after the update in which a word went Active -> Typed (the 2
\* assigned then is decremented in the same update), and 0 after any other,
\* the decrement of 0 giving 0.
C30_CooldownZeroOrOne ==
    result = "Ok" =>
        /\ reset_typed \in {0, 1}
        /\ reset_typed = IF since_typed = 0 THEN ResetFrames - 1 ELSE 0

\* a word has just gone Active -> Typed: the cooldown stands at 1
C30_Witness ==
    /\ result = "Ok"
    /\ since_typed = 0
    /\ reset_typed = 1
    /\ \E i \in 1..Len(words) : words[i].state = "Typed" /\ words[i].death_animation = 0

\* C33: a key that is first held in a cooldown frame is dispatched to no
\* word while it stays held.  The cooldown frame itself advances no word
\* and stores the whole held set, the new key included; in the frame after
\* it (since_typed is 1 there, and new_keypress is the key the cooldown
\* frame found new) that key, if still held, is not the new keypress and no
\* word waiting for it advances; and so in every later frame in which a
\* stored key is still held.
C33_CooldownKeyLost ==
    [][ (
        /\ reset_typed > 0 =>
              /\ \A i \in 1..Len(words) : words'[i].num_typed <= words[i].num_typed
              /\ new_keypress' # None => new_keypress' \in keys_pressed'
        /\ ( /\ since_typed = 1
             /\ new_keypress # None
             /\ new_keypress \in keys_pressed' ) =>
                /\ new_keypress \in keys_pressed
                /\ new_keypress' # new_keypress
                /\ \A i \in 1..Len(words) :
                      /\ words[i].state = "Active"
                      /\ ~Full(words[i])
                      /\ ch_to_keycode(words[i].word[words[i].num_typed + 1]) = new_keypress
                      => words'[i].num_typed = words[i].num_typed
        ) ]_vars

\* the cooldown frame after the label went Typed found B newly held: B is
\* stored as held, and the vocabulary word that waits for it is at 0
C33_Witness ==
    /\ Len(words) >= 2
    /\ since_typed = 1
    /\ reset_typed = 0
    /\ new_keypress = "B"
    /\ "B" \in keys_pressed
    /\ words[1].state = "Typed"
    /\ words[2].state = "Active"
    /\ words[2].word[1] = "b"
    /\ words[2].num_typed = 0

---------------------------------------------------------------------------
(* Properties of a Game whose updates keep coming (SpecLive) *)

\* some word has left the window of positions the model follows: no update
\* is taken from such a state
WindowLeft == \E i \in 1..Len(words) : ~InBounds(words[i].position)

\* the Active words before word i: each may still cut an update short
\* before it reaches word i, once
ActiveBefore(ws, i) == Cardinality({ j \in 1..(i - 1) : ws[j].state = "Active" })

\* C25: with Game updates that keep occurring with strictly positive deltas,
\* every word that enters Typed eventually becomes Dead, and nothing cancels
\* its animation.  Every update of a Game with a Typed word brings that word
\* closer to Dead: the word becomes Dead, or its clock advances, or (the
\* delays) an Active word before it goes Typed, of which there are finitely
\* many, or a cooldown frame is used up, of which one follows each
\* completion.  The measure (clock, Active words before, cooldown) cannot
\* decrease for ever, and the updates keep coming.
C25_TypedBecomesDead ==
    [][ (
        \A i \in 1..Len(words) :
            words[i].state = "Typed" =>
                \/ words'[i].state = "Dead"
                \/ /\ words'[i].state = "Typed"
                   /\ \/ words'[i].death_animation > words[i].death_animation
                      \/ /\ words'[i].death_animation = words[i].death_animation
                         /\ ActiveBefore(words', i) < ActiveBefore(words, i)
                      \/ /\ words'[i].death_animation = words[i].death_animation
                         /\ ActiveBefore(words', i) = ActiveBefore(words, i)
                         /\ reset_typed' < reset_typed
        ) ]_vars

\* the same as a leads-to under the fairness of SpecLive; the updates of the
\* model end when a word leaves the window of positions
TypedLeadsToDead ==
    \A i \in 1..(NumVocab + 1) :
        (Len(words) >= i /\ words[i].state = "Typed")
            ~> (words[i].state = "Dead" \/ WindowLeft)

\* the vocabulary word went Typed first, the label's completion and its
\* cooldown held its animation up, and it is Dead while the label's
\* animation still runs
C25_Witness ==
    /\ Len(words) >= 2
    /\ words[2].state = "Dead"
    /\ words[1].state = "Typed"
    /\ words[1].death_animation < duration
    /\ ~WindowLeft

---------------------------------------------------------------------------
(* Properties of a word (SpecWord) *)

\* C8: in an update of an Active word with an untyped, mapped character
\* left and a new keypress, num_typed grows by exactly 1 when the key is the
\* key code of that character; with any other key num_typed is unchanged,
\* the word stays Active and the update returns Ok.
C8_KeyMatch ==
    [][ (
        LET w == words[1]
            after == words'[1]
        IN  ( /\ calls' = calls + 1
              /\ w.state = "Active"
              /\ w.num_typed < Len(w.word)
              /\ new_keypress' # None
              /\ w.word[w.num_typed + 1] \in {"a", "b"} )
            => IF new_keypress' = (IF w.word[w.num_typed + 1] = "a" THEN "A" ELSE "B")
               THEN after.num_typed = w.num_typed + 1
               ELSE /\ after.num_typed = w.num_typed
                    /\ after.state = "Active"
                    /\ result' = "Ok"
        ) ]_vars

\* "ab" after two updates: its first character is typed and the last update
\* carried A, which is not the key of "b"
C8_Witness ==
    /\ calls = 2
    /\ words[1].word = <<"a", "b">>
    /\ words[1].num_typed = 1
    /\ words[1].position = <<2, 2>>
    /\ new_keypress = "A"
    /\ result = "Ok"

\* C9: a word becomes Typed in an update after the one that matched its
\* last character, never in the same one: the update that raises num_typed
\* to the length n leaves the word Active, a word goes Active -> Typed only
\* in an update that starts with num_typed = n, and a word that is no longer
\* Active has had at least n + 1 updates.
C9_TypedOneUpdateLater ==
    [][ (
        LET w == words[1]
            after == words'[1]
        IN  /\ after.num_typed > w.num_typed /\ Full(after) => after.state = "Active"
            /\ w.state = "Active" /\ after.state = "Typed" => Full(w)
            /\ after.state # "Active" => calls' >= Len(after.word) + 1
        ) ]_vars

\* a word of the longest length is Typed after exactly n + 1 updates
C9_Witness ==
    /\ Len(words[1].word) = MaxWordLen
    /\ words[1].state = "Typed"
    /\ calls = Len(words[1].word) + 1

\* C10 as stated: the update in which num_typed first reaches the length of
\* the text ends with the word Typed.
C10_Original ==
    [][ (
        ~Full(words[1]) /\ Full(words'[1]) => words'[1].state = "Typed"
        ) ]_vars

\* C10 as amended: the transition fires in the first update that starts
\* with num_typed equal to the length of the text: an update of an Active,
\* fully typed word ends with the word Typed and its count unchanged.
C10_Amended ==
    [][ (
        calls' = calls + 1 /\ words[1].state = "Active" /\ Full(words[1])
            => words'[1].state = "Typed" /\ Full(words'[1])
        ) ]_vars

\* a one-character word went Typed in an update that carried no key
C10_Witness ==
    /\ Len(words[1].word) = 1
    /\ words[1].state = "Typed"
    /\ calls = 2
    /\ new_keypress = None

\* C20: in a word update that returns Ok the position is advanced, by
\* exactly the velocity, if and only if an untyped character remained at the
\* start of the update, whether or not the key matched: a word with a
\* velocity other than zero changes place in exactly those updates, and a
\* fully typed word, so every Typed or Dead word, stays where it is.
C20_MoveWhileUntyped ==
    [][ (
        LET w == words[1]
            after == words'[1]
            untyped == w.num_typed < Len(w.word)
        IN  calls' = calls + 1 /\ result' = "Ok" =>
                /\ untyped => after.position = <<w.position[1] + w.velocity[1],
                                                 w.position[2] + w.velocity[2]>>
                /\ ~untyped => after.position = w.position
                /\ w.velocity # <<0, 0>> => (after.position # w.position <=> untyped)
                /\ w.state \in {"Typed", "Dead"} => after.position = w.position
        ) ]_vars

\* the word "a" with velocity <<1, 1>> after four updates: it moved in the
\* update that missed and in the one that matched, and stayed in place in
\* the two updates after them
C20_Witness ==
    /\ words[1].word = <<"a">>
    /\ words[1].velocity = <<1, 1>>
    /\ words[1].position = <<2, 2>>
    /\ words[1].state = "Typed"
    /\ calls = 4

\* C21: Word::draw colours the first num_typed characters in the highlight
\* colour while the word is Active, in the value of the death animation at
\* its clock while it is Typed (the background colour once the animation is
\* finished, whether or not it still yields a value) and in the background
\* colour when it is Dead; the other characters get the word's color.
C21_DrawColours ==
    rendered # << >> =>
        LET w == words[1]
        IN  /\ Len(rendered) = 2
            /\ rendered[1].text \o rendered[2].text = w.word
            /\ Len(rendered[1].text) = w.num_typed
            /\ rendered[2].color = w.color
            /\ w.state = "Active" => rendered[1].color = "BrightYellow"
            /\ w.state = "Typed" =>
                  rendered[1].color =
                      IF w.death_animation = 0 THEN "BrightYellow"
                      ELSE IF w.death_animation < animation_duration * TicksPerSecond
                      THEN "Tween"
                      ELSE "Bg"
            /\ w.state = "Dead" => rendered[1].color = "Bg"

\* a Typed word drawn half way through its animation
C21_Witness ==
    /\ rendered # << >>
    /\ words[1].state = "Typed"
    /\ words[1].death_animation = 1
    /\ rendered[1].color = "Tween"
    /\ rendered[1].text = words[1].word

---------------------------------------------------------------------------
(* Properties of the layout (SpecLayout) *)

\* the decimal digits of a natural number, as a text
RECURSIVE DecimalText(_)
DecimalText(n) ==
    LET digit == <<"0", "1", "2", "3", "4", "5", "6", "7", "8", "9">>[(n % 10) + 1]
    IN  IF n < 10 THEN <<digit>> ELSE Append(DecimalText(n \div 10), digit)

\* how often a text occurs in a sequence of texts
Occurrences(t, list) == Cardinality({i \in 1..Len(list) : list[i] = t})

\* C12: Game::new builds exactly 13 + 171 = 184 words, all Active with
\* num_typed 0: first the labels "0", "15", ..., "180" in that order, then
\* 171 words in which every text occurs as often as in WORD_LIST.
C12_Layout ==
    words # << >> =>
        /\ Len(words) = 13 + 171
        /\ Len(words) = 184
        /\ \A i \in 1..Len(words) : words[i].state = "Active" /\ words[i].num_typed = 0
        /\ \A i \in 1..13 : words[i].word = DecimalText(15 * (i - 1))
        /\ Len(WORD_LIST) = 171
        /\ LET targets == [i \in 1..171 |-> words[13 + i].word]
           IN  /\ \A i \in 1..171 : Occurrences(WORD_LIST[i], targets) = Occurrences(WORD_LIST[i], WORD_LIST)
               /\ \A i \in 1..171 : \E j \in 1..171 : targets[i] = WORD_LIST[j]

\* a layout whose first target word is not the first entry of WORD_LIST:
\* the shuffle has moved it
C12_Witness ==
    /\ Len(words) = 184
    /\ words[14].word # WORD_LIST[1]
    /\ words[13].word = <<"1", "8", "0">>
    /\ Occurrences(<<"n", "e", "t">>, [i \in 1..171 |-> words[13 + i].word]) = 2

---------------------------------------------------------------------------
(* Properties of a Game of one word of any text (SpecWordGame) *)

\* the characters a-z and 0-9
LowercaseOrDigit ==
    { "a", "b", "c", "d", "e", "f", "g", "h", "i", "j", "k", "l", "m",
      "n", "o", "p", "q", "r", "s", "t", "u", "v", "w", "x", "y", "z",
      "0", "1", "2", "3", "4", "5", "6", "7", "8", "9" }

\* C13: the update of a word returns an error exactly when the frame
\* carries a new keypress and the word's next untyped character is not in
\* a-z or 0-9, whatever the key is, and the Game update returns that error;
\* with no new keypress, or with a next character in a-z or 0-9, or with no
\* untyped character left, the update returns Ok.
C13_UnmappedCharacter ==
    [][ (
        LET w == words[1]
        IN  /\ result' = "Err" <=>
                  /\ reset_typed = 0
                  /\ new_keypress' # None
                  /\ w.num_typed < Len(w.word)
                  /\ w.word[w.num_typed + 1] \notin LowercaseOrDigit
            /\ result' \in {"Ok", "Err"}
        ) ]_vars

\* "a-" with its first character typed: the update that carried B, not the
\* key of any character of the word, returned the error
C13_Witness ==
    /\ words[1].word = <<"a", "-">>
    /\ words[1].num_typed = 1
    /\ new_keypress = "B"
    /\ result = "Err"

---------------------------------------------------------------------------
(* Properties of a Menu (SpecMenu) *)

\* C15: next_selection moves the selection to (selected_index + 1) mod the
\* number of items: one item forward, from the last item to the first, and
\* selected_item is the item at the new index; n calls in a row on a menu
\* of n items end at the item they started from.
C15_NextSelection ==
    [][ (
        LET n == Len(menu.menu_items)
            i == menu.selected_index
        IN  menu_run' # menu_run /\ menu_run'.kind = "Down" =>
                /\ menu'.selected_index = (i + 1) % n
                /\ i < n - 1 => menu'.selected_index = i + 1
                /\ i = n - 1 => menu'.selected_index = 0
                /\ menu'.menu_items = menu.menu_items
                /\ selected_item(menu') = menu.menu_items[((i + 1) % n) + 1]
                /\ menu_run'.count = n => menu'.selected_index = menu_run'.start
        ) ]_vars

\* three calls of next_selection in a row on a menu of three items, from
\* the second item and back to it
C15_Witness ==
    /\ Len(menu.menu_items) = 3
    /\ menu_run = [kind |-> "Down", start |-> 1, count |-> 3]
    /\ menu.selected_index = 1

\* C16: prev_selection moves the selection one item back, from the first
\* item (index 0) to the last (index n - 1), and selected_item is the item
\* at the new index; n calls in a row on a menu of n items end at the item
\* they started from.
C16_PrevSelection ==
    [][ (
        LET n == Len(menu.menu_items)
            i == menu.selected_index
        IN  menu_run' # menu_run /\ menu_run'.kind = "Up" =>
                /\ i > 0 => menu'.selected_index = i - 1
                /\ i = 0 => menu'.selected_index = n - 1
                /\ menu'.menu_items = menu.menu_items
                /\ selected_item(menu') = menu.menu_items[(IF i = 0 THEN n - 1 ELSE i - 1) + 1]
                /\ menu_run'.count = n => menu'.selected_index = menu_run'.start
        ) ]_vars

\* three calls of prev_selection in a row on a menu of three items, from
\* the last item and back to it
C16_Witness ==
    /\ Len(menu.menu_items) = 3
    /\ menu_run = [kind |-> "Up", start |-> 2, count |-> 3]
    /\ menu.selected_index = 2

---------------------------------------------------------------------------
(* Properties of the GameManager (SpecManager) *)

\* C14: Enter on "New Game" in the main menu replaces the Game whatever
\* its state was: afterwards every word is Active with num_typed 0 (at its
\* spawn point, its animation clock at 0), reset_typed is 0, keys_pressed
\* is empty and the game mode is Active.  In the main menu with "New Game"
\* selected, Enter is the one key event that leaves the selected index as
\* it is and changes anything.
C14_NewGame ==
    [][ (
        ( /\ game_state = "MainMenu"
          /\ selected_item(main_menu.menu) = "New Game"
          /\ main_menu'.menu.selected_index = main_menu.menu.selected_index )
        => /\ \A i \in 1..Len(words') :
                 /\ words'[i].state = "Active"
                 /\ words'[i].num_typed = 0
                 /\ words'[i].position = <<0, 0>>
                 /\ words'[i].death_animation = 0
           /\ reset_typed' = 0
           /\ keys_pressed' = {}
           /\ game_state' = "Active"
        ) ]_vars

\* a Game started from the main menu that shows "Resume": New Game was
\* chosen while an earlier Game was there to resume
C14_Witness ==
    /\ game_state = "Active"
    /\ frames = 0
    /\ main_menu.show_resume
    /\ selected_item(main_menu.menu) = "New Game"
    /\ \A i \in 1..Len(words) : words[i].state = "Active" /\ words[i].num_typed = 0
    /\ reset_typed = 0
    /\ keys_pressed = {}

\* the Game of a GameManager: its words, its cooldown, its stored key set
GameKept ==
    /\ words' = words
    /\ reset_typed' = reset_typed
    /\ keys_pressed' = keys_pressed

\* Enter on "New Game" in the main menu
NewGameSelected ==
    /\ game_state = "MainMenu"
    /\ selected_item(main_menu.menu) = NEW_GAME
    /\ game_state' = "Active"

C27_ResumeKeepsGame ==
    [][ (
        /\ resumed' => /\ game_state \in {"Paused", "MainMenu"}
                       /\ game_state' = "Active"
                       /\ \A i \in 1..Len(words) :
                             /\ words'[i].state = words[i].state
                             /\ words'[i].num_typed = words[i].num_typed
                             /\ words'[i].position = words[i].position
                             /\ words'[i].death_animation = words[i].death_animation
                       /\ words' = words
                       /\ reset_typed' = reset_typed
        /\ game_state \in {"Paused", "MainMenu"} /\ game_state' = "Active" =>
              resumed' \/ NewGameSelected
        /\ game_state \in {"Paused", "MainMenu"} /\ ~NewGameSelected =>
              words' = words /\ reset_typed' = reset_typed
        /\ game_state = "Active" /\ game_state' # "Active" =>
              words' = words /\ reset_typed' = reset_typed
        ) ]_vars

\* back in a Game whose cooldown runs and in which a word is Typed
C27_Witness ==
    /\ resumed
    /\ game_state = "Active"
    /\ reset_typed > 0
    /\ \E i \in 1..Len(words) : words[i].state = "Typed"

\* C28: show_resume(true) a second time changes nothing: after any number
\* of New Game selections the main menu's items are "Resume", "New Game",
\* "Exit", with "Resume" once and first; before the first New Game (the flag
\* is not set, and the mode has never left MainMenu) they are "New Game",
\* "Exit".
C28_ShowResumeOnce ==
    /\ main_menu.menu.menu_items = IF main_menu.show_resume
                                   THEN <<RESUME, NEW_GAME, EXIT>>
                                   ELSE <<NEW_GAME, EXIT>>
    /\ show_resume(show_resume(main_menu, TRUE), TRUE) = show_resume(main_menu, TRUE)
    /\ show_resume(main_menu, TRUE).menu.menu_items = <<RESUME, NEW_GAME, EXIT>>
    /\ ~main_menu.show_resume => game_state = "MainMenu" /\ frames = 0 /\ ~resumed
    /\ game_state # "MainMenu" => main_menu.show_resume

\* New Game was chosen from a main menu that showed "Resume" already: a
\* second New Game, and "Resume" is there once
C28_Witness ==
    /\ game_state = "Active"
    /\ ~resumed
    /\ frames = 0
    /\ main_menu.show_resume
    /\ main_menu.menu.selected_index = 1
    /\ main_menu.menu.menu_items = <<RESUME, NEW_GAME, EXIT>>

\* the Game as Game::new built it, with no update made on it
Unplayed ==
    /\ frames = 0
    /\ reset_typed = 0
    /\ keys_pressed = {}
    /\ new_keypress = None
    /\ \A i \in 1..Len(words) :
          /\ words[i].state = "Active"
          /\ words[i].num_typed = 0
          /\ words[i].position = Origin
          /\ words[i].death_animation = new_death_animation

\* C31: the Game built by GameManager::new is never played.  The flag
\* show_resume is set by the selection of New Game and by nothing else, and
\* is never unset; while it is not set the main menu offers no "Resume",
\* the mode is MainMenu and the Game is as it was built; so whenever the
\* mode is Active or Paused, New Game has been selected.
C31_PlaceholderNotPlayed ==
    /\ [](/\ game_state \in {"Active", "Paused"} => main_menu.show_resume
          /\ ~main_menu.show_resume =>
                /\ game_state = "MainMenu"
                /\ \A n \in 1..Len(main_menu.menu.menu_items) :
                      main_menu.menu.menu_items[n] # RESUME
                /\ Unplayed)
    /\ [][ (
           main_menu'.show_resume # main_menu.show_resume =>
               /\ main_menu'.show_resume
               /\ NewGameSelected
           ) ]_vars

\* a Game in which a character was typed, paused: it was started by New
\* Game, and the main menu offers "Resume"
C31_Witness ==
    /\ game_state = "Paused"
    /\ main_menu.show_resume
    /\ main_menu.menu.menu_items[1] = RESUME
    /\ ~Unplayed
    /\ \E i \in 1..Len(words) : words[i].num_typed > 0

\* selected_index is an index of menu_items
ValidSelection(m) ==
    /\ 0 <= m.selected_index
    /\ m.selected_index < Len(m.menu_items)

\* C32: in every state of the GameManager, whatever Up and Down keys, Enter
\* selections, reset_selection and show_resume(true) calls came before, the
\* selected_index of the main menu and of the pause menu is a valid index
\* of its items, so selected_item yields one of the menu's items.
C32_SelectionValid ==
    /\ ValidSelection(main_menu.menu)
    /\ ValidSelection(pause_menu)
    /\ selected_item(main_menu.menu) \in {RESUME, NEW_GAME, EXIT}
    /\ selected_item(pause_menu) \in {RESUME, MAIN_MENU, EXIT}

\* both menus away from their first item: "Exit", the last item of the
\* pause menu, is selected over a Game started with New Game at index 1 of
\* a main menu to which "Resume" had been added
C32_Witness ==
    /\ game_state = "Paused"
    /\ pause_menu.selected_index = Len(pause_menu.menu_items) - 1
    /\ main_menu.show_resume
    /\ main_menu.menu.selected_index = 1

====
